---- MODULE Spec2Model ----
(***************************************************************************)
(* Model of the resume parser (src/main.py): the Response Normalizer       *)
(* (ResumeParser.parse_resume_with_ai), the Text Extractor                 *)
(* (extract_text_from_file / _pdf / _docx) and the way main() and          *)
(* display_parsed_results read the normalizer's result.                    *)
(*                                                                         *)
(* A Python str is a sequence of one-character strings, so that strip,     *)
(* startswith, endswith, slicing and json.loads are computed character by  *)
(* character as the code computes them.                                    *)
(***************************************************************************)
EXTENDS Integers, Sequences, FiniteSets, TLC

(***************************************************************************)
(* Bounds of the model                                                     *)
(***************************************************************************)
\* largest number of whitespace characters put around a model response
MaxPad == 1
\* largest number of pages of a modelled PDF
MaxPages == 3
\* largest number of paragraphs of a modelled DOCX
MaxParas == 3

(***************************************************************************)
(* Python str operations                                                   *)
(***************************************************************************)
\* the grave accent U+0060, three of which make a Markdown code fence (the
\* character itself cannot be written in a string of this language)
Tick == "grave"

\* the characters str.strip() removes (the ones the model's alphabet has)
Whitespace == {" ", "\n", "\t"}

RECURSIVE lstrip(_)
lstrip(s) ==
    IF Len(s) > 0 /\ Head(s) \in Whitespace THEN lstrip(Tail(s)) ELSE s

RECURSIVE rstrip(_)
rstrip(s) ==
    IF Len(s) > 0 /\ s[Len(s)] \in Whitespace
    THEN rstrip(SubSeq(s, 1, Len(s) - 1))
    ELSE s

\* str.strip()
strip(s) == rstrip(lstrip(s))

\* str.startswith(p)
startswith(s, p) == Len(s) >= Len(p) /\ SubSeq(s, 1, Len(p)) = p

\* str.endswith(p)
endswith(s, p) ==
    Len(s) >= Len(p) /\ SubSeq(s, Len(s) - Len(p) + 1, Len(s)) = p

\* s[n:]
SliceFrom(s, n) == SubSeq(s, n + 1, Len(s))

\* s[:-n]
SliceDropLast(s, n) == SubSeq(s, 1, Len(s) - n)

\* sub in s, for two strs: sub occurs in s as a substring
Contains(s, sub) ==
    \E i \in 1..(Len(s) - Len(sub) + 1) : SubSeq(s, i, i + Len(sub) - 1) = sub

\* p occurs in s starting at index i
OccursAt(s, i, p) ==
    i >= 1 /\ i + Len(p) - 1 <= Len(s) /\ SubSeq(s, i, i + Len(p) - 1) = p

UpperLetters == <<"A", "B", "C", "D", "E", "F", "G", "H", "I", "J", "K", "L", "M", "N", "O", "P", "Q", "R", "S", "T", "U", "V", "W", "X", "Y", "Z">>
LowerLetters == <<"a", "b", "c", "d", "e", "f", "g", "h", "i", "j", "k", "l", "m", "n", "o", "p", "q", "r", "s", "t", "u", "v", "w", "x", "y", "z">>

\* the lower-case form of one character
LowerOf(c) ==
    IF \E i \in 1..26 : UpperLetters[i] = c
    THEN LowerLetters[CHOOSE i \in 1..26 : UpperLetters[i] = c]
    ELSE c

\* str.lower()
lower(s) == [i \in 1..Len(s) |-> LowerOf(s[i])]

(***************************************************************************)
(* Python values: what json.loads returns and what the session holds.      *)
(* Every value is a record tagged by kind; None is JSON null.              *)
(***************************************************************************)
PyNone == [kind |-> "none"]
PyStr(t) == [kind |-> "str", chars |-> t]
PyInt(n) == [kind |-> "int", num |-> n]
PyBool(b) == [kind |-> "bool", bool |-> b]
PyList(xs) == [kind |-> "list", items |-> xs]
\* a dict is a function from its keys (strs) to values
PyDict(m) == [kind |-> "dict", map |-> m]

EmptyMap == [k \in {} |-> PyNone]

\* d[k] = v on a dict's map: a repeated key keeps the last value
MapPut(m, k, v) == [x \in (DOMAIN m) \cup {k} |-> IF x = k THEN v ELSE m[x]]

\* bool(v): Python truthiness
Truthy(v) ==
    CASE v.kind = "none" -> FALSE
      [] v.kind = "str" -> Len(v.chars) > 0
      [] v.kind = "int" -> v.num # 0
      [] v.kind = "bool" -> v.bool
      [] v.kind = "list" -> Len(v.items) > 0
      [] v.kind = "dict" -> DOMAIN v.map # {}

\* whether the test (k in v) raises TypeError (v is not a container)
InRaises(v) == v.kind \in {"none", "int", "bool"}

\* (k in v) for a str k, when it does not raise: key of a dict, element of a
\* list, substring of a str
In(k, v) ==
    CASE v.kind = "dict" -> k \in DOMAIN v.map
      [] v.kind = "list" -> \E i \in 1..Len(v.items) : v.items[i] = PyStr(k)
      [] v.kind = "str" -> Contains(v.chars, k)
      [] OTHER -> FALSE

(***************************************************************************)
(* json.loads: a recursive-descent parser of the JSON grammar (objects,    *)
(* arrays, strings without escapes, non-negative integers, null, true,     *)
(* false), strict about control characters in strings, trailing commas     *)
(* and extra data, as the Python decoder is.                               *)
(***************************************************************************)
JsonWhitespace == {" ", "\n", "\t"}
Digits == {"0", "1", "2", "3", "4", "5", "6", "7", "8", "9"}
DigitVal(c) == CHOOSE n \in 0..9 : <<"0", "1", "2", "3", "4", "5", "6", "7", "8", "9">>[n + 1] = c

ParseFail == [ok |-> FALSE, val |-> PyNone, next |-> 0]
ParseOk(v, n) == [ok |-> TRUE, val |-> v, next |-> n]

RECURSIVE SkipWS(_, _)
SkipWS(s, i) ==
    IF i <= Len(s) /\ s[i] \in JsonWhitespace THEN SkipWS(s, i + 1) ELSE i

\* index of the quote closing the string whose content starts at j, 0 if the
\* string is unterminated or holds a control character
RECURSIVE StringEnd(_, _)
StringEnd(s, j) ==
    IF j > Len(s) THEN 0
    ELSE IF s[j] = "\"" THEN j
    ELSE IF s[j] \in {"\n", "\t"} THEN 0
    ELSE StringEnd(s, j + 1)

\* s[i] is the opening quote
ParseString(s, i) ==
    LET e == StringEnd(s, i + 1)
    IN  IF e = 0 THEN ParseFail
        ELSE ParseOk(PyStr(SubSeq(s, i + 1, e - 1)), e + 1)

RECURSIVE NumberEnd(_, _)
NumberEnd(s, j) ==
    IF j <= Len(s) /\ s[j] \in Digits THEN NumberEnd(s, j + 1) ELSE j

RECURSIVE DigitsVal(_)
DigitsVal(ds) ==
    IF Len(ds) = 0 THEN 0
    ELSE 10 * DigitsVal(SubSeq(ds, 1, Len(ds) - 1)) + DigitVal(ds[Len(ds)])

\* s[i] is a digit: 0 | [1-9][0-9]*
ParseNumber(s, i) ==
    IF s[i] = "0" THEN ParseOk(PyInt(0), i + 1)
    ELSE LET e == NumberEnd(s, i)
         IN  ParseOk(PyInt(DigitsVal(SubSeq(s, i, e - 1))), e)

RECURSIVE ParseValue(_, _)
RECURSIVE ParseMembers(_, _, _)
RECURSIVE ParseElements(_, _, _)

\* the value starting at index i (whitespace already skipped)
ParseValue(s, i) ==
    IF i > Len(s) THEN ParseFail
    ELSE IF s[i] = "\"" THEN ParseString(s, i)
    ELSE IF s[i] = "{" THEN
        LET j == SkipWS(s, i + 1)
        IN  IF j <= Len(s) /\ s[j] = "}" THEN ParseOk(PyDict(EmptyMap), j + 1)
            ELSE ParseMembers(s, j, EmptyMap)
    ELSE IF s[i] = "[" THEN
        LET j == SkipWS(s, i + 1)
        IN  IF j <= Len(s) /\ s[j] = "]" THEN ParseOk(PyList(<<>>), j + 1)
            ELSE ParseElements(s, j, <<>>)
    ELSE IF OccursAt(s, i, <<"n", "u", "l", "l">>) THEN ParseOk(PyNone, i + 4)
    ELSE IF OccursAt(s, i, <<"t", "r", "u", "e">>) THEN ParseOk(PyBool(TRUE), i + 4)
    ELSE IF OccursAt(s, i, <<"f", "a", "l", "s", "e">>) THEN ParseOk(PyBool(FALSE), i + 5)
    ELSE IF s[i] \in Digits THEN ParseNumber(s, i)
    ELSE ParseFail

\* the members of an object from index i, where a key's quote must be
ParseMembers(s, i, m) ==
    IF i > Len(s) \/ s[i] # "\"" THEN ParseFail
    ELSE
        LET k == ParseString(s, i)
        IN  IF ~k.ok THEN ParseFail
            ELSE
                LET c == SkipWS(s, k.next)
                IN  IF c > Len(s) \/ s[c] # ":" THEN ParseFail
                    ELSE
                        LET v == ParseValue(s, SkipWS(s, c + 1))
                        IN  IF ~v.ok THEN ParseFail
                            ELSE
                                LET d == SkipWS(s, v.next)
                                    m2 == MapPut(m, k.val.chars, v.val)
                                IN  IF d > Len(s) THEN ParseFail
                                    ELSE IF s[d] = "}" THEN ParseOk(PyDict(m2), d + 1)
                                    ELSE IF s[d] = "," THEN ParseMembers(s, SkipWS(s, d + 1), m2)
                                    ELSE ParseFail

\* the elements of an array from index i
ParseElements(s, i, xs) ==
    LET v == ParseValue(s, i)
    IN  IF ~v.ok THEN ParseFail
        ELSE
            LET d == SkipWS(s, v.next)
                xs2 == Append(xs, v.val)
            IN  IF d > Len(s) THEN ParseFail
                ELSE IF s[d] = "]" THEN ParseOk(PyList(xs2), d + 1)
                ELSE IF s[d] = "," THEN ParseElements(s, SkipWS(s, d + 1), xs2)
                ELSE ParseFail

\* json.loads(s): ok = FALSE stands for raising json.JSONDecodeError
json_loads(s) ==
    LET r == ParseValue(s, SkipWS(s, 1))
    IN  IF r.ok /\ SkipWS(s, r.next) = Len(s) + 1
        THEN [ok |-> TRUE, val |-> r.val]
        ELSE [ok |-> FALSE, val |-> PyNone]

(***************************************************************************)
(* Literal strs of src/main.py                                             *)
(***************************************************************************)
KeyError == <<"e", "r", "r", "o", "r">>
KeyRawResponse == <<"r", "a", "w", "_", "r", "e", "s", "p", "o", "n", "s", "e">>
MsgJsonParsingFailed == <<"J", "S", "O", "N", " ", "p", "a", "r", "s", "i", "n", "g", " ", "f", "a", "i", "l", "e", "d">>
FenceJson == <<Tick, Tick, Tick, "j", "s", "o", "n">>
Fence == <<Tick, Tick, Tick>>

(***************************************************************************)
(* Response Normalizer: ResumeParser.parse_resume_with_ai                  *)
(***************************************************************************)
\* a StripFences that forgets the trailing fence
StripFences_KeepsClosingFence(t) ==
    IF startswith(t, FenceJson) THEN SliceFrom(t, 7) ELSE t

\* a leading fence with the tag json is cut by s[7:], then a trailing fence
\* by s[:-3]
StripFences(t) ==
    LET t2 == IF startswith(t, FenceJson) THEN SliceFrom(t, 7) ELSE t
    IN  IF endswith(t2, Fence) THEN SliceDropLast(t2, 3) ELSE t2

\* response.text.strip(), the two fence cuts, .strip()
CleanResponse(text) == strip(StripFences(strip(text)))

\* a failure record that drops the raw text
JsonFailureRecord_WithoutRawText(response_text) ==
    PyDict(MapPut(EmptyMap, KeyError, PyStr(MsgJsonParsingFailed)))

\* {"error": "JSON parsing failed", "raw_response": response_text}
JsonFailureRecord(response_text) ==
    PyDict(MapPut(MapPut(EmptyMap, KeyError, PyStr(MsgJsonParsingFailed)),
                  KeyRawResponse, PyStr(response_text)))

\* {"error": str(e)}
ErrorRecord(msg) == PyDict(MapPut(EmptyMap, KeyError, PyStr(msg)))

\* outcome is what self.model.generate_content / response.text does: it
\* raises (text is then str(e)) or it gives the response's text.  The value is
\* the function's return value with the cleaned text and what json.loads did.
parse_resume_with_ai(outcome) ==
    IF outcome.raises
    THEN [response_text |-> <<>>, json_outcome |-> "not_attempted",
          result |-> ErrorRecord(outcome.text)]
    ELSE LET response_text == CleanResponse(outcome.text)
             parsed == json_loads(response_text)
         IN  IF parsed.ok
             THEN [response_text |-> response_text, json_outcome |-> "parsed",
                   result |-> parsed.val]
             ELSE [response_text |-> response_text,
                   json_outcome |-> "JSONDecodeError",
                   result |-> JsonFailureRecord(response_text)]

\* main(): if "error" not in parsed_data: success, else failure; a TypeError
\* of the membership test is caught by the handler's except Exception
CallerView(parsed_data) ==
    IF InRaises(parsed_data) THEN "exception"
    ELSE IF ~In(KeyError, parsed_data) THEN "success"
    ELSE "failure"

\* display_parsed_results(parsed_data): the failure branch, the section
\* displays, or the exception the function raises before either
display_parsed_results(parsed_data) ==
    IF ~Truthy(parsed_data)
    THEN IF InRaises(parsed_data) THEN "TypeError" ELSE "failure"
    ELSE IF InRaises(parsed_data) THEN "TypeError"
    ELSE IF In(KeyError, parsed_data) THEN "failure"
    ELSE IF parsed_data.kind # "dict" THEN "AttributeError"
    ELSE "sections"

\* the Results tab: parsed results are displayed only for a truthy parsed_data
ResultsTab(parsed_data) ==
    IF Truthy(parsed_data) THEN display_parsed_results(parsed_data)
    ELSE "no_data"

(***************************************************************************)
(* Model responses the normalizer is applied to                            *)
(***************************************************************************)
BodySummary == <<"{", "\"", "s", "u", "m", "m", "a", "r", "y", "\"", ":", " ", "\"", "x", "\"", "}">>
BodyNotJson == <<"n", "o", "t", " ", "j", "s", "o", "n">>
BodyErrorKey == <<"{", "\"", "e", "r", "r", "o", "r", "\"", ":", " ", "\"", "x", "\"", "}">>
BodyEmptyObject == <<"{", "}">>
BodyList == <<"[", "]">>
BodyErrorList == <<"[", "\"", "e", "r", "r", "o", "r", "\"", "]">>
BodyErrorString == <<"\"", "n", "o", " ", "e", "r", "r", "o", "r", "\"">>
BodyNumber == <<"5">>
BodyZero == <<"0">>
BodyNull == <<"n", "u", "l", "l">>
BodyTrue == <<"t", "r", "u", "e">>
BodyTrailingComma == <<"{", "\"", "s", "u", "m", "m", "a", "r", "y", "\"", ":", " ", "\"", "x", "\"", ",", "}">>
BodyNested == <<"{", "\"", "s", "k", "i", "l", "l", "s", "\"", ":", " ", "{", "\"", "t", "o", "o", "l", "s", "\"", ":", " ", "[", "\"", "x", "\"", ",", " ", "n", "u", "l", "l", "]", "}", ",", " ", "\"", "e", "x", "p", "e", "r", "i", "e", "n", "c", "e", "\"", ":", " ", "[", "]", "}">>
BodyRepeatedKey == <<"{", "\"", "s", "u", "m", "m", "a", "r", "y", "\"", ":", " ", "\"", "x", "\"", ",", " ", "\"", "s", "u", "m", "m", "a", "r", "y", "\"", ":", " ", "\"", "y", "\"", "}">>
BodyExtraData == <<"{", "}", " ", "x">>
BodyEmpty == <<>>
BodyUnterminated == <<"{", "\"", "s", "u", "m", "m", "a", "r", "y", "\"", ":", " ", "\"", "x", "\"">>

Bodies ==
    {BodySummary, BodyNotJson, BodyErrorKey, BodyEmptyObject, BodyList,
     BodyErrorList, BodyErrorString, BodyNumber, BodyZero, BodyNull, BodyTrue,
     BodyTrailingComma, BodyNested, BodyRepeatedKey, BodyExtraData, BodyEmpty,
     BodyUnterminated}

\* what may stand before the body: nothing, or an opening fence with or
\* without a language tag
OpenJson == FenceJson
OpenJsonNewline == <<Tick, Tick, Tick, "j", "s", "o", "n", "\n">>
OpenBareNewline == <<Tick, Tick, Tick, "\n">>
OpenPythonTag == <<Tick, Tick, Tick, "p", "y", "\n">>
OpenUpperJson == <<Tick, Tick, Tick, "J", "S", "O", "N", "\n">>
FencedOpens == {OpenJson, OpenJsonNewline, OpenBareNewline, OpenPythonTag, OpenUpperJson}
Opens == {<<>>} \cup FencedOpens

\* what may stand after the body: nothing, or a closing fence
CloseNewline == <<"\n", Tick, Tick, Tick>>
FencedCloses == {Fence, CloseNewline}
Closes == {<<>>} \cup FencedCloses

\* whitespace around the whole response
Pads == UNION {[1..n -> {" ", "\n"}] : n \in 0..MaxPad}

ResponseParts ==
    [lead : Pads, open : Opens, body : Bodies, close : Closes, trail : Pads]

ResponseText(p) == p.lead \o p.open \o p.body \o p.close \o p.trail

\* str(e) of a failing model call
MsgQuota == <<"q", "u", "o", "t", "a">>
ErrorMessages == {MsgQuota, <<>>}
NoParts == [lead |-> <<>>, open |-> <<>>, body |-> <<>>, close |-> <<>>, trail |-> <<>>]

(***************************************************************************)
(* Text Extractor: extract_text_from_pdf, extract_text_from_docx and       *)
(* extract_text_from_file.  The bytes of an upload are modelled by what    *)
(* the decoding library finds in them: a PDF with its pages' texts, a DOCX *)
(* with its paragraphs' texts, or something neither library can open.      *)
(***************************************************************************)
PdfBytes(pages) == [format |-> "pdf", parts |-> pages]
DocxBytes(paragraphs) == [format |-> "docx", parts |-> paragraphs]
OtherBytes == [format |-> "other", parts |-> <<>>]
\* file_content before uploaded_file.read()
Unread == [format |-> "unread", parts |-> <<>>]

DigitChar(n) == <<"0", "1", "2", "3", "4", "5", "6", "7", "8", "9">>[n + 1]

\* str(n) of a non-negative int, as the f-string formats page_num
RECURSIVE IntToStr(_)
IntToStr(n) ==
    IF n < 10 THEN <<DigitChar(n)>>
    ELSE IntToStr(n \div 10) \o <<DigitChar(n % 10)>>

MarkerOpen == <<"-", "-", "-", " ", "P", "a", "g", "e", " ">>
MarkerClose == <<" ", "-", "-", "-">>
\* --- Page {page_num} ---
MarkerLine(page_num) == MarkerOpen \o IntToStr(page_num) \o MarkerClose

\* the first page number of enumerate(pdf_reader.pages, 1)
FirstPageNum == 1

\* a page contribution that puts the marker after the page's text
PageContribution_MarkerAfterText(page_num, page_text) ==
    IF Len(page_text) > 0
    THEN <<"\n">> \o page_text \o <<"\n">> \o MarkerLine(page_num) \o <<"\n">>
    ELSE <<>>

\* a page contribution that marks every page, with or without text
PageContribution_MarksEveryPage(page_num, page_text) ==
    <<"\n">> \o MarkerLine(page_num) \o <<"\n">> \o page_text \o <<"\n">>

\* what one page adds to text: nothing if its page_text is empty
PageContribution(page_num, page_text) ==
    IF Len(page_text) > 0
    THEN <<"\n">> \o MarkerLine(page_num) \o <<"\n">> \o page_text \o <<"\n">>
    ELSE <<>>

\* text after the loop over the first n pages
RECURSIVE PdfLoop(_, _)
PdfLoop(pages, n) ==
    IF n = 0 THEN <<>>
    ELSE PdfLoop(pages, n - 1)
            \o PageContribution(FirstPageNum + n - 1, pages[n])

\* extract_text_from_pdf(file_content): the stripped text; or, when PdfReader
\* cannot open the bytes, the exception, raised before os.unlink is reached
extract_text_from_pdf(file_content) ==
    IF file_content.format = "pdf"
    THEN [kind |-> "text",
          text |-> strip(PdfLoop(file_content.parts, Len(file_content.parts))),
          temp_left |-> 0]
    ELSE [kind |-> "ExtractionFailure", text |-> <<>>, temp_left |-> 1]

\* a paragraph contribution that keeps blank paragraphs
ParagraphContribution_KeepsBlank(paragraph_text) == paragraph_text \o <<"\n">>

\* what one paragraph adds to text: nothing if it is blank after strip()
ParagraphContribution(paragraph_text) ==
    IF Len(strip(paragraph_text)) > 0
    THEN paragraph_text \o <<"\n">>
    ELSE <<>>

\* text after the loop over the first n paragraphs
RECURSIVE DocxLoop(_, _)
DocxLoop(paragraphs, n) ==
    IF n = 0 THEN <<>>
    ELSE DocxLoop(paragraphs, n - 1) \o ParagraphContribution(paragraphs[n])

\* extract_text_from_docx(file_content)
extract_text_from_docx(file_content) ==
    IF file_content.format = "docx"
    THEN [kind |-> "text",
          text |-> strip(DocxLoop(file_content.parts, Len(file_content.parts))),
          temp_left |-> 0]
    ELSE [kind |-> "ExtractionFailure", text |-> <<>>, temp_left |-> 1]

ExtPdf == <<".", "p", "d", "f">>
ExtDocx == <<".", "d", "o", "c", "x">>
ExtDoc == <<".", "d", "o", "c">>

\* a branch choice that compares the name without lower-casing it
DeclaredFormat_CaseSensitive(name) ==
    IF endswith(name, ExtPdf) THEN "pdf"
    ELSE IF endswith(name, ExtDocx) \/ endswith(name, ExtDoc) THEN "docx"
    ELSE "unsupported"

\* the branch extract_text_from_file takes for uploaded_file.name
DeclaredFormat(name) ==
    LET filename == lower(name)
    IN  IF endswith(filename, ExtPdf) THEN "pdf"
        ELSE IF endswith(filename, ExtDocx) \/ endswith(filename, ExtDoc) THEN "docx"
        ELSE "unsupported"

\* a dispatch that tries the PDF decoder before it rejects the format
DispatchByName_DecodesThenRejects(name, file_content) ==
    LET format == DeclaredFormat(name)
    IN  IF format = "pdf"
        THEN [outcome |-> extract_text_from_pdf(file_content), decoders |-> {"pdf"}]
        ELSE IF format = "docx"
        THEN [outcome |-> extract_text_from_docx(file_content), decoders |-> {"docx"}]
        ELSE [outcome |-> [kind |-> "UnsupportedFormat", text |-> <<>>,
                           temp_left |-> extract_text_from_pdf(file_content).temp_left],
              decoders |-> {"pdf"}]

\* the if / elif / else of extract_text_from_file on the bytes already read:
\* the outcome of the decoder called, or the exception of the else branch,
\* with the decoders invoked
DispatchByName(name, file_content) ==
    LET format == DeclaredFormat(name)
    IN  IF format = "pdf"
        THEN [outcome |-> extract_text_from_pdf(file_content), decoders |-> {"pdf"}]
        ELSE IF format = "docx"
        THEN [outcome |-> extract_text_from_docx(file_content), decoders |-> {"docx"}]
        ELSE [outcome |-> [kind |-> "UnsupportedFormat", text |-> <<>>, temp_left |-> 0],
              decoders |-> {}]

(***************************************************************************)
(* Uploads the extractor is applied to                                     *)
(***************************************************************************)
NamePdf == <<"c", "v", ".", "p", "d", "f">>
NameUpperPdf == <<"C", "V", ".", "P", "D", "F">>
NameDocx == <<"c", "v", ".", "d", "o", "c", "x">>
NameDoc == <<"c", "v", ".", "d", "o", "c">>
NameTxt == <<"r", "e", "s", "u", "m", "e", ".", "t", "x", "t">>
NameNoExtension == <<"c", "v">>
NamePdfTxt == <<"c", "v", ".", "p", "d", "f", ".", "t", "x", "t">>
NameNoDot == <<"c", "v", "p", "d", "f">>
NameDocm == <<"c", "v", ".", "d", "o", "c", "m">>
FileNames ==
    {NamePdf, NameUpperPdf, NameDocx, NameDoc, NameTxt, NameNoExtension,
     NamePdfTxt, NameNoDot, NameDocm}

\* page_text of a page: empty (no text layer), or some text
PageTexts == {<<>>, <<"a">>, <<" ">>, <<"b", "\n", "c", " ">>}
\* paragraph.text of a paragraph; a line break inside a paragraph is "\n"
ParagraphTexts == {<<>>, <<" ">>, <<"a">>, <<" ", "b", " ">>, <<"c", "\n", "d">>}

SeqsUpTo(S, n) == UNION {[1..k -> S] : k \in 0..n}

FileContents ==
    {PdfBytes(ps) : ps \in SeqsUpTo(PageTexts, MaxPages)}
        \cup {DocxBytes(ps) : ps \in SeqsUpTo(ParagraphTexts, MaxParas)}
        \cup {OtherBytes}

NoOutcome == [kind |-> "none", text |-> <<>>]

(***************************************************************************)
(* Prompt Builder: ResumeParser.create_parsing_prompt.  Here a Python str  *)
(* is the sequence of its lines (what str.split on the newline gives, one  *)
(* or more lines, the empty str being the one empty line), so that the     *)
(* place of every template line and of every line of the resume is an      *)
(* index of the prompt.                                                    *)
(***************************************************************************)
\* the + of two strs none of which has a newline, when one of them is empty
LineConcat(a, b) == IF a = "" THEN b ELSE a

\* the + of two strs: the last line of the first continues in the first line
\* of the second
StrConcat(x, y) ==
    SubSeq(x, 1, Len(x) - 1) \o <<LineConcat(x[Len(x)], y[1])>> \o SubSeq(y, 2, Len(y))

\* the f-string's text before {resume_text}
PromptHead ==
    <<"",
      "You are an expert resume parser and HR analyst. Analyze the following resume text and extract comprehensive information. Be thorough and accurate in your extraction.",
      "",
      "Resume Text:",
      "">>

\* the f-string's text after {resume_text}
PromptTail ==
    <<"",
      "",
      "Extract and structure the following information as a JSON object:",
      "",
      "1. **Personal Information:**",
      "   - Full name",
      "   - Email address  ",
      "   - Phone number",
      "   - Physical address",
      "   - LinkedIn profile URL",
      "   - GitHub/Portfolio URLs",
      "   - Professional websites",
      "",
      "2. **Professional Summary:** Brief career overview/objective",
      "",
      "3. **Work Experience:** List all jobs with:",
      "   - Company name",
      "   - Job title/position",
      "   - Employment duration (start-end dates)",
      "   - Location",
      "   - Key responsibilities and achievements",
      "   - Technologies/tools used",
      "",
      "4. **Education:** All educational qualifications with:",
      "   - Degree/certification name",
      "   - Institution name",
      "   - Graduation year",
      "   - GPA/grades (if mentioned)",
      "   - Relevant coursework",
      "",
      "5. **Skills:** Categorize into:",
      "   - Technical skills",
      "   - Programming languages",
      "   - Tools and technologies",
      "   - Soft skills",
      "   - Languages spoken",
      "",
      "6. **Certifications:** All professional certifications with issuing organizations",
      "",
      "7. **Projects:** Personal/professional projects with:",
      "   - Project name",
      "   - Description",
      "   - Technologies used",
      "   - Duration",
      "   - Key achievements",
      "",
      "8. **Additional Information:**",
      "   - Awards and achievements",
      "   - Publications",
      "   - Volunteer work",
      "   - Hobbies/interests",
      "",
      "Return ONLY a valid JSON object with this exact structure:",
      "{",
      "    \"personal_info\": {",
      "        \"name\": \"Full Name\",",
      "        \"email\": \"email@example.com\",",
      "        \"phone\": \"phone number\",",
      "        \"address\": \"full address\",",
      "        \"linkedin\": \"linkedin URL\",",
      "        \"github\": \"github URL\",",
      "        \"portfolio\": \"portfolio URL\"",
      "    },",
      "    \"summary\": \"Professional summary text\",",
      "    \"experience\": [",
      "        {",
      "            \"company\": \"Company Name\",",
      "            \"position\": \"Job Title\",",
      "            \"duration\": \"Start Date - End Date\",",
      "            \"location\": \"City, State\",",
      "            \"description\": \"Job description and achievements\",",
      "            \"technologies\": [\"tech1\", \"tech2\"]",
      "        }",
      "    ],",
      "    \"education\": [",
      "        {",
      "            \"degree\": \"Degree Name\",",
      "            \"institution\": \"Institution Name\",",
      "            \"year\": \"Graduation Year\",",
      "            \"gpa\": \"GPA if mentioned\",",
      "            \"coursework\": [\"course1\", \"course2\"]",
      "        }",
      "    ],",
      "    \"skills\": {",
      "        \"technical\": [\"skill1\", \"skill2\"],",
      "        \"programming\": [\"lang1\", \"lang2\"],",
      "        \"tools\": [\"tool1\", \"tool2\"],",
      "        \"soft_skills\": [\"skill1\", \"skill2\"],",
      "        \"languages\": [\"English\", \"Spanish\"]",
      "    },",
      "    \"certifications\": [",
      "        {",
      "            \"name\": \"Certification Name\",",
      "            \"issuer\": \"Issuing Organization\",",
      "            \"date\": \"Issue Date\"",
      "        }",
      "    ],",
      "    \"projects\": [",
      "        {",
      "            \"name\": \"Project Name\",",
      "            \"description\": \"Project description\",",
      "            \"technologies\": [\"tech1\", \"tech2\"],",
      "            \"duration\": \"Project duration\",",
      "            \"achievements\": \"Key achievements\"",
      "        }",
      "    ],",
      "    \"additional\": {",
      "        \"awards\": [\"award1\", \"award2\"],",
      "        \"publications\": [\"pub1\", \"pub2\"],",
      "        \"volunteer\": [\"volunteer work\"],",
      "        \"interests\": [\"interest1\", \"interest2\"]",
      "    }",
      "}",
      "",
      "If any field is not found, use null or empty array []. Ensure all text is properly extracted and formatted.",
      "">>

\* a prompt that puts the resume text after the whole template
create_parsing_prompt_TextLast(resume_text) ==
    StrConcat(StrConcat(PromptHead, PromptTail), resume_text)

\* create_parsing_prompt(resume_text): the f-string
create_parsing_prompt(resume_text) ==
    StrConcat(StrConcat(PromptHead, resume_text), PromptTail)

\* resume texts the prompt builder is applied to: lines of a resume, empty
\* lines, and lines that are themselves lines of the template
MaxTextLines == 3
TextLines ==
    {"", "Jane Doe", "Resume Text:", "8. **Additional Information:**"}
ResumeTexts == UNION {[1..k -> TextLines] : k \in 1..MaxTextLines}

VARIABLES
    npc,            \* "start" before the call of parse_resume_with_ai, "done" after
    response_parts, \* the pieces the model's response is made of
    model_outcome,  \* [raises, text]: what the model call does
    response_text,  \* the cleaned text handed to json.loads
    json_outcome,   \* "not_attempted", "parsed" or "JSONDecodeError"
    result,         \* the value parse_resume_with_ai returned
    epc,            \* extract_text_from_file: "start", "read" (bytes read), "done"
    uploaded_file,  \* [name, content]: the upload
    file_content,   \* what uploaded_file.read() returned, Unread before
    decoder_calls,  \* the decoders invoked: "pdf" for PdfReader, "docx" for Document
    temp_files,     \* number of temporary files left on disk
    extract_outcome \* [kind, text]: the text returned or the exception raised

nvars == <<npc, response_parts, model_outcome, response_text, json_outcome, result>>

evars == <<epc, uploaded_file, file_content, decoder_calls, temp_files, extract_outcome>>

VARIABLES
    ppc,            \* "start" before the call of create_parsing_prompt, "done" after
    resume_text,    \* the argument of create_parsing_prompt
    prompt          \* the prompt returned

pvars == <<ppc, resume_text, prompt>>

VARIABLES
    rpc,             \* where the page is: "idle" between script runs, "model_wait"
                     \* inside generate_content, "answered" when it has come back
    parser,          \* st.session_state.parser
    parsers_created, \* how many ResumeParser objects the session has constructed
    extracted_text,  \* st.session_state.extracted_text
    parsed_data,     \* st.session_state.parsed_data
    request_text,    \* the handler's local text, the argument of parse_resume_with_ai
    answer,          \* what generate_content did in the current request
    model_calls,     \* calls of generate_content made by the latest request
    request_outcome, \* how the latest run's parse request ended, "none" without one
    render_outcome,  \* what the Results tab did in the latest run
    pipeline,        \* the argument and the value of the latest parse_resume_with_ai
    written,         \* which of the two session values the latest request assigned
    api_key,         \* what create_api_key_input returned in the latest run
    call_key         \* the key of the parser whose model the latest request called

svars == <<rpc, parser, parsers_created, extracted_text, parsed_data, request_text,
           answer, model_calls, request_outcome, render_outcome, pipeline, written,
           api_key, call_key>>

VARIABLES
    bpc,             \* st.py: "idle" between runs, "health_wait", "checked",
                     \* "submit_wait"
    parsing_mode,    \* the sidebar's parsing mode in the latest run
    health,          \* what the request of check_api_health did in the latest run
    submission,      \* what the latest run sent to the backend
    sent,            \* how many submissions the latest run sent
    parsing_result,  \* st.session_state.parsing_result
    run_outcome      \* how the latest run of the page ended

bvars == <<bpc, parsing_mode, health, submission, sent, parsing_result, run_outcome>>

vars == <<nvars, evars, pvars, svars, bvars>>

NoAnswer == [raises |-> FALSE, text |-> <<>>]
NoPipeline == [text |-> <<>>, result |-> PyNone]
NothingWritten == [text |-> FALSE, data |-> FALSE]
\* no API key: create_api_key_input returns None
NoKey == ""

\* the session of main.py as initialize_session_state makes it
FreshSession ==
    /\ parser = PyNone
    /\ parsers_created = 0
    /\ extracted_text = PyNone
    /\ parsed_data = PyNone
    /\ request_text = <<>>
    /\ answer = NoAnswer
    /\ model_calls = 0
    /\ request_outcome = "none"
    /\ render_outcome = "not_rendered"
    /\ pipeline = NoPipeline
    /\ written = NothingWritten
    /\ api_key = NoKey
    /\ call_key = NoKey

\* the page of main.py not opened, in the specifications that do not run it
SessionIdle ==
    /\ rpc = "off"
    /\ FreshSession

NoHealth == [raises |-> FALSE, status |-> 0]
NoSubmission == [kind |-> "none", text |-> <<>>]

\* the session of st.py before the first run
FreshBackendSession ==
    /\ parsing_mode = "file"
    /\ health = NoHealth
    /\ submission = NoSubmission
    /\ sent = 0
    /\ parsing_result = PyNone
    /\ run_outcome = "none"

\* the page of st.py not opened, in the specifications that do not run it
BackendIdle ==
    /\ bpc = "off"
    /\ FreshBackendSession

\* the prompt builder at rest, in the specifications that do not run it
PromptIdle ==
    /\ ppc = "idle"
    /\ resume_text = <<"">>
    /\ prompt = <<"">>

\* the normalizer at rest, in the specifications that do not run it
NormalizerIdle ==
    /\ npc = "idle"
    /\ response_parts = NoParts
    /\ model_outcome = [raises |-> FALSE, text |-> <<>>]
    /\ response_text = <<>>
    /\ json_outcome = "not_attempted"
    /\ result = PyNone

\* the extractor at rest, in the specifications that do not run it
ExtractorIdle ==
    /\ epc = "idle"
    /\ uploaded_file = [name |-> <<>>, content |-> OtherBytes]
    /\ file_content = Unread
    /\ decoder_calls = {}
    /\ temp_files = 0
    /\ extract_outcome = NoOutcome

InitNormalize ==
    /\ npc = "start"
    /\ \/ \E p \in ResponseParts :
            /\ response_parts = p
            /\ model_outcome = [raises |-> FALSE, text |-> ResponseText(p)]
       \/ \E m \in ErrorMessages :
            /\ response_parts = NoParts
            /\ model_outcome = [raises |-> TRUE, text |-> m]
    /\ response_text = <<>>
    /\ json_outcome = "not_attempted"
    /\ result = PyNone
    /\ ExtractorIdle
    /\ PromptIdle
    /\ SessionIdle
    /\ BackendIdle

\* one call of parse_resume_with_ai
ParseResumeWithAI ==
    /\ npc = "start"
    /\ LET r == parse_resume_with_ai(model_outcome)
       IN  /\ response_text' = r.response_text
           /\ json_outcome' = r.json_outcome
           /\ result' = r.result
    /\ npc' = "done"
    /\ UNCHANGED <<response_parts, model_outcome>>
    /\ UNCHANGED <<evars, pvars, svars, bvars>>

NextNormalize == ParseResumeWithAI

SpecNormalize == InitNormalize /\ [][NextNormalize]_vars

(***************************************************************************)
(* extract_text_from_file, in its two steps                                *)
(***************************************************************************)
InitExtract ==
    /\ epc = "start"
    /\ \E n \in FileNames, c \in FileContents :
            uploaded_file = [name |-> n, content |-> c]
    /\ file_content = Unread
    /\ decoder_calls = {}
    /\ temp_files = 0
    /\ extract_outcome = NoOutcome
    /\ NormalizerIdle
    /\ PromptIdle
    /\ SessionIdle
    /\ BackendIdle

\* file_content = uploaded_file.read()
ReadUpload ==
    /\ epc = "start"
    /\ file_content' = uploaded_file.content
    /\ epc' = "read"
    /\ UNCHANGED <<uploaded_file, decoder_calls, temp_files, extract_outcome>>
    /\ UNCHANGED <<nvars, pvars, svars, bvars>>

\* the branch on the lower-cased file name, with the decoder it calls
Dispatch ==
    /\ epc = "read"
    /\ LET r == DispatchByName(uploaded_file.name, file_content)
       IN  /\ extract_outcome' = [kind |-> r.outcome.kind, text |-> r.outcome.text]
           /\ decoder_calls' = decoder_calls \cup r.decoders
           /\ temp_files' = temp_files + r.outcome.temp_left
    /\ epc' = "done"
    /\ UNCHANGED <<uploaded_file, file_content>>
    /\ UNCHANGED <<nvars, pvars, svars, bvars>>

NextExtract == ReadUpload \/ Dispatch

SpecExtract == InitExtract /\ [][NextExtract]_vars

(***************************************************************************)
(* One call of create_parsing_prompt                                       *)
(***************************************************************************)
InitPrompt ==
    /\ ppc = "start"
    /\ resume_text \in ResumeTexts
    /\ prompt = <<"">>
    /\ NormalizerIdle
    /\ ExtractorIdle
    /\ SessionIdle
    /\ BackendIdle

CreateParsingPrompt ==
    /\ ppc = "start"
    /\ prompt' = create_parsing_prompt(resume_text)
    /\ ppc' = "done"
    /\ UNCHANGED resume_text
    /\ UNCHANGED <<nvars, evars, svars, bvars>>

NextPrompt == CreateParsingPrompt

SpecPrompt == InitPrompt /\ [][NextPrompt]_vars

(***************************************************************************)
(* The page of main.py.  Streamlit runs main() from the top at every       *)
(* interaction; st.session_state outlives the runs.  A run is one step,    *)
(* but for the run of a parse request, which waits in generate_content:    *)
(* the answer of the model is a step of the environment.  The runs         *)
(* modelled are those of the File Upload mode and the click on Parse Text  *)
(* with a text.                                                            *)
(***************************************************************************)
ApiKeys == {"key1", "key2"}

\* ResumeParser(api_key)
ResumeParserObject(key) == [kind |-> "ResumeParser", api_key |-> key]

\* a run that constructs a parser whatever the session holds
ConstructsParser_Always(p) == TRUE

\* if not st.session_state.parser: whether the run constructs a parser
ConstructsParser(p) == p = PyNone

\* if not st.session_state.parser: st.session_state.parser = ResumeParser(api_key)
ParserAfterInit(p, key) ==
    IF ConstructsParser(p) THEN ResumeParserObject(key) ELSE p

\* a file handler that assigns the session's text before it looks at the
\* outcome of the extraction
FileHandlerExtract_StoresOnFailure(stored_text, uploaded) ==
    LET r == DispatchByName(uploaded.name, uploaded.content).outcome
    IN  [raised |-> r.kind # "text", kind |-> r.kind, local_text |-> r.text,
         extracted_text |-> PyStr(r.text)]

\* the first two statements of the file handler: the call of
\* extract_text_from_file and, when it returns, the assignment of its value to
\* the session; stored_text is the session's text before
FileHandlerExtract(stored_text, uploaded) ==
    LET r == DispatchByName(uploaded.name, uploaded.content).outcome
    IN  IF r.kind = "text"
        THEN [raised |-> FALSE, kind |-> r.kind, local_text |-> r.text,
              extracted_text |-> PyStr(r.text)]
        ELSE [raised |-> TRUE, kind |-> r.kind, local_text |-> <<>>,
              extracted_text |-> stored_text]

\* a text handler that stores the stripped text
TextHandlerStores_Stripped(text) == PyStr(strip(text))

\* st.session_state.extracted_text = resume_text
TextHandlerStores(text) == PyStr(text)

\* a parse_resume_with_ai that calls the model again when the call raised
RetryAfter_OnError(outcome) == outcome.raises

\* whether parse_resume_with_ai calls generate_content again after the
\* outcome of a call: there is no loop around the call and no call in the
\* except clauses
RetryAfter(outcome) == FALSE

\* uploads the file uploader lets through (type pdf, doc, docx)
SessionUploads ==
    {[name |-> NamePdf, content |-> PdfBytes(<< <<"a">> >>)],
     [name |-> NamePdf, content |-> PdfBytes(<<>>)],
     [name |-> NameDocx, content |-> DocxBytes(<< <<"b">> >>)],
     [name |-> NameDoc, content |-> OtherBytes],
     [name |-> NameUpperPdf, content |-> OtherBytes]}

\* texts of the text area
SessionTexts == {<<"J">>, <<" ", "J">>, <<" ">>}

\* what generate_content does when it comes back
SessionAnswers ==
    {[raises |-> TRUE, text |-> MsgQuota]}
        \cup {[raises |-> FALSE, text |-> b] :
                b \in {BodySummary, OpenJsonNewline \o BodySummary \o CloseNewline,
                       BodyNotJson, BodyErrorKey, BodyNumber, BodyList}}

Init ==
    /\ rpc = "idle"
    /\ FreshSession
    /\ NormalizerIdle
    /\ ExtractorIdle
    /\ PromptIdle
    /\ BackendIdle

\* a run without an API key: st.stop() before the tabs
RunWithoutKey ==
    /\ rpc = "idle"
    /\ api_key' = NoKey
    /\ call_key' = NoKey
    /\ request_outcome' = "no_key"
    /\ render_outcome' = "stopped"
    /\ model_calls' = 0
    /\ UNCHANGED <<rpc, parser, parsers_created, extracted_text, parsed_data,
                   request_text, answer, pipeline, written>>
    /\ UNCHANGED <<nvars, evars, pvars, bvars>>

\* a run in which ResumeParser(api_key) raises: st.stop() before the tabs
RunParserInitFails ==
    /\ rpc = "idle"
    /\ ConstructsParser(parser)
    /\ \E key \in ApiKeys : api_key' = key
    /\ call_key' = NoKey
    /\ request_outcome' = "init_failed"
    /\ render_outcome' = "stopped"
    /\ model_calls' = 0
    /\ UNCHANGED <<rpc, parser, parsers_created, extracted_text, parsed_data,
                   request_text, answer, pipeline, written>>
    /\ UNCHANGED <<nvars, evars, pvars, bvars>>

\* the start of a run with the key key, up to the tabs
PassInit(key) ==
    /\ rpc = "idle"
    /\ api_key' = key
    /\ parser' = ParserAfterInit(parser, key)
    /\ parsers_created' =
            IF ConstructsParser(parser) THEN parsers_created + 1 ELSE parsers_created

\* a run in which no parse button is clicked
RunIdle(key) ==
    /\ PassInit(key)
    /\ call_key' = NoKey
    /\ request_outcome' = "none"
    /\ render_outcome' = ResultsTab(parsed_data)
    /\ model_calls' = 0
    /\ UNCHANGED <<rpc, extracted_text, parsed_data, request_text, answer, pipeline, written>>
    /\ UNCHANGED <<nvars, evars, pvars, bvars>>

\* Parse Resume clicked, extract_text_from_file raises: the handler's except
\* clause reports it, then the Results tab is rendered
ParseFileFails(key, uploaded) ==
    /\ PassInit(key)
    /\ LET h == FileHandlerExtract(extracted_text, uploaded)
       IN  /\ h.raised
           /\ extracted_text' = h.extracted_text
           /\ request_outcome' = h.kind
    /\ request_text' = <<>>
    /\ call_key' = NoKey
    /\ model_calls' = 0
    /\ written' = NothingWritten
    /\ render_outcome' = ResultsTab(parsed_data)
    /\ UNCHANGED <<rpc, parsed_data, answer, pipeline>>
    /\ UNCHANGED <<nvars, evars, pvars, bvars>>

\* Parse Resume clicked, the text is extracted and stored, and
\* parse_resume_with_ai calls generate_content
ParseFileExtracts(key, uploaded) ==
    /\ PassInit(key)
    /\ LET h == FileHandlerExtract(extracted_text, uploaded)
       IN  /\ ~h.raised
           /\ extracted_text' = h.extracted_text
           /\ request_text' = h.local_text
    /\ rpc' = "model_wait"
    /\ answer' = NoAnswer
    /\ call_key' = parser'.api_key
    /\ model_calls' = 1
    /\ written' = [text |-> TRUE, data |-> FALSE]
    /\ request_outcome' = "pending"
    /\ render_outcome' = "pending"
    /\ UNCHANGED <<parsed_data, pipeline>>
    /\ UNCHANGED <<nvars, evars, pvars, bvars>>

\* Parse Text clicked with a text that is not blank: the text is stored and
\* parse_resume_with_ai calls generate_content
ParseText(key, text) ==
    /\ PassInit(key)
    /\ Len(strip(text)) > 0
    /\ extracted_text' = TextHandlerStores(text)
    /\ request_text' = text
    /\ rpc' = "model_wait"
    /\ answer' = NoAnswer
    /\ call_key' = parser'.api_key
    /\ model_calls' = 1
    /\ written' = [text |-> TRUE, data |-> FALSE]
    /\ request_outcome' = "pending"
    /\ render_outcome' = "pending"
    /\ UNCHANGED <<parsed_data, pipeline>>
    /\ UNCHANGED <<nvars, evars, pvars, bvars>>

\* generate_content comes back: it returns a response or raises.  A step of
\* the remote endpoint, which the call waits for without a timeout.
ModelAnswers(outcome) ==
    /\ rpc = "model_wait"
    /\ answer' = outcome
    /\ rpc' = "answered"
    /\ UNCHANGED <<parser, parsers_created, extracted_text, parsed_data, request_text,
                   model_calls, request_outcome, render_outcome, pipeline, written,
                   api_key, call_key>>
    /\ UNCHANGED <<nvars, evars, pvars, bvars>>

\* the rest of the run: parse_resume_with_ai returns, its value is stored,
\* the handler tests it for the key error, and the Results tab is rendered
FinishRequest ==
    /\ rpc = "answered"
    /\ IF RetryAfter(answer)
       THEN /\ rpc' = "model_wait"
            /\ model_calls' = model_calls + 1
            /\ UNCHANGED <<parsed_data, pipeline, written, request_outcome, render_outcome>>
       ELSE LET r == parse_resume_with_ai(answer).result
            IN  /\ parsed_data' = r
                /\ pipeline' = [text |-> request_text, result |-> r]
                /\ written' = [written EXCEPT !.data = TRUE]
                /\ request_outcome' = CallerView(r)
                /\ render_outcome' = ResultsTab(r)
                /\ rpc' = "idle"
                /\ UNCHANGED model_calls
    /\ UNCHANGED <<parser, parsers_created, extracted_text, request_text, answer,
                   api_key, call_key>>
    /\ UNCHANGED <<nvars, evars, pvars, bvars>>

Next ==
    \/ RunWithoutKey
    \/ RunParserInitFails
    \/ \E k \in ApiKeys : RunIdle(k)
    \/ \E k \in ApiKeys, u \in SessionUploads : ParseFileFails(k, u)
    \/ \E k \in ApiKeys, u \in SessionUploads : ParseFileExtracts(k, u)
    \/ \E k \in ApiKeys, t \in SessionTexts : ParseText(k, t)
    \/ \E a \in SessionAnswers : ModelAnswers(a)
    \/ FinishRequest

Spec == Init /\ [][Next]_vars

\* the program takes its own steps; nothing makes the endpoint answer
SpecLive == Init /\ [][Next]_vars /\ WF_vars(FinishRequest)

(***************************************************************************)
(* The page of st.py, the variant that calls the HTTP backend.  A run      *)
(* starts with check_api_health; the answers of the backend are steps of   *)
(* the environment, which the requests wait for with a timeout.  Line 260  *)
(* of st.py is read as the assignment of result, without the words pasted  *)
(* after it.                                                               *)
(***************************************************************************)
HttpOk == 200

\* what requests.get(.../health, timeout=5) does: a response with a status,
\* or an exception (no connection, or no answer in five seconds)
HealthOutcomes ==
    {[raises |-> FALSE, status |-> HttpOk],
     [raises |-> FALSE, status |-> 503],
     [raises |-> FALSE, status |-> 404],
     [raises |-> TRUE, status |-> 0]}

\* a health check that takes any response for a healthy backend
check_api_health_AnyResponse(outcome) == ~outcome.raises

\* check_api_health(), outcome being what its request did
check_api_health(outcome) ==
    IF outcome.raises THEN FALSE ELSE outcome.status = HttpOk

\* what a post to the backend does: a response with a status and a JSON body,
\* or an exception
BackendResponses ==
    {[raises |-> FALSE, status |-> HttpOk, json |-> json_loads(BodySummary).val],
     [raises |-> FALSE, status |-> HttpOk, json |-> json_loads(BodyNested).val],
     [raises |-> FALSE, status |-> HttpOk, json |-> json_loads(BodyErrorKey).val],
     [raises |-> FALSE, status |-> HttpOk, json |-> PyDict(EmptyMap)],
     [raises |-> FALSE, status |-> 500, json |-> PyNone],
     [raises |-> TRUE, status |-> 0, json |-> PyNone]}

\* upload_file_to_api / parse_text_with_api: the JSON body of a 200
\* response, None otherwise
ApiResult(response) ==
    IF response.raises THEN PyNone
    ELSE IF response.status = HttpOk THEN response.json
    ELSE PyNone

\* files of the uploader and texts of the text area of st.py
BackendFiles == {NamePdf, NameDocx, NameDoc}
BackendTexts == {<<>>, <<"J">>, <<" ">>}

InitBackend ==
    /\ bpc = "idle"
    /\ FreshBackendSession
    /\ NormalizerIdle
    /\ ExtractorIdle
    /\ PromptIdle
    /\ SessionIdle

ParsingModes == {"file", "text"}

\* a run of the page starts, with the sidebar's radio on mode: main() calls
\* check_api_health()
StartRun(mode) ==
    /\ bpc = "idle"
    /\ bpc' = "health_wait"
    /\ parsing_mode' = mode
    /\ health' = NoHealth
    /\ submission' = NoSubmission
    /\ sent' = 0
    /\ run_outcome' = "running"
    /\ UNCHANGED parsing_result
    /\ UNCHANGED <<nvars, evars, pvars, svars>>

\* the request of the health check ends
HealthAnswers(outcome) ==
    /\ bpc = "health_wait"
    /\ health' = outcome
    /\ bpc' = "checked"
    /\ UNCHANGED <<parsing_mode, submission, sent, parsing_result, run_outcome>>
    /\ UNCHANGED <<nvars, evars, pvars, svars>>

\* if not check_api_health(): the error box and st.stop()
StopUnhealthy ==
    /\ bpc = "checked"
    /\ ~check_api_health(health)
    /\ run_outcome' = "stopped"
    /\ bpc' = "idle"
    /\ UNCHANGED <<parsing_mode, health, submission, sent, parsing_result>>
    /\ UNCHANGED <<nvars, evars, pvars, svars>>

\* a healthy run in which no parse button is clicked
RenderHealthy ==
    /\ bpc = "checked"
    /\ check_api_health(health)
    /\ run_outcome' = "rendered"
    /\ bpc' = "idle"
    /\ UNCHANGED <<parsing_mode, health, submission, sent, parsing_result>>
    /\ UNCHANGED <<nvars, evars, pvars, svars>>

\* Parse Resume clicked: upload_file_to_api posts the file
SubmitFile(name) ==
    /\ bpc = "checked"
    /\ check_api_health(health)
    /\ parsing_mode = "file"
    /\ submission' = [kind |-> "file", text |-> name]
    /\ sent' = sent + 1
    /\ bpc' = "submit_wait"
    /\ UNCHANGED <<parsing_mode, health, parsing_result, run_outcome>>
    /\ UNCHANGED <<nvars, evars, pvars, svars>>

\* Parse Text clicked with a text that is not empty: parse_text_with_api
\* posts the text
SubmitText(text) ==
    /\ bpc = "checked"
    /\ check_api_health(health)
    /\ parsing_mode = "text"
    /\ Len(text) > 0
    /\ submission' = [kind |-> "text", text |-> text]
    /\ sent' = sent + 1
    /\ bpc' = "submit_wait"
    /\ UNCHANGED <<parsing_mode, health, parsing_result, run_outcome>>
    /\ UNCHANGED <<nvars, evars, pvars, svars>>

\* the post ends: a truthy result is stored and displayed, another one is
\* reported as a failure
BackendAnswers(response) ==
    /\ bpc = "submit_wait"
    /\ LET api_result == ApiResult(response)
       IN  IF Truthy(api_result)
           THEN /\ parsing_result' = api_result
                /\ run_outcome' = "parsed"
           ELSE /\ UNCHANGED parsing_result
                /\ run_outcome' = "failed"
    /\ bpc' = "idle"
    /\ UNCHANGED <<parsing_mode, health, submission, sent>>
    /\ UNCHANGED <<nvars, evars, pvars, svars>>

NextBackend ==
    \/ \E m \in ParsingModes : StartRun(m)
    \/ \E h \in HealthOutcomes : HealthAnswers(h)
    \/ StopUnhealthy
    \/ RenderHealthy
    \/ \E f \in BackendFiles : SubmitFile(f)
    \/ \E t \in BackendTexts : SubmitText(t)
    \/ \E r \in BackendResponses : BackendAnswers(r)

SpecBackend == InitBackend /\ [][NextBackend]_vars

(***************************************************************************)
(* Properties of the Response Normalizer, checked under SpecNormalize      *)
(***************************************************************************)
\* parse_resume_with_ai has returned for a model call that gave a response
Normalized == npc = "done" /\ ~model_outcome.raises

KeySummary == <<"s", "u", "m", "m", "a", "r", "y">>

\* C1: the result is a tagged success-xor-failure value: for every model
\* response it is treated as a failure (it carries the error indicator) if and
\* only if json.loads failed, and as a success if and only if json.loads
\* succeeded.
C1_SuccessXorFailure ==
    Normalized =>
        /\ (CallerView(result) = "failure") <=> (json_outcome = "JSONDecodeError")
        /\ (CallerView(result) = "success") <=> (json_outcome = "parsed")

\* the response is an opening fence (with or without a language tag), a body
\* and a closing fence
IsFenced == response_parts.open \in FencedOpens /\ response_parts.close \in FencedCloses

\* C2: for every response made of an opening fence, an optional language tag,
\* a body and a closing fence, the text handed to json.loads is exactly the
\* trimmed body, whatever the language tag is.
C2_AnyFenceStripped ==
    (Normalized /\ IsFenced) => response_text = strip(response_parts.body)

\* the body is a well-formed JSON object text
BodyIsObject ==
    /\ json_loads(response_parts.body).ok
    /\ json_loads(response_parts.body).val.kind = "dict"

\* the response is the body alone, or the body between the json fence with a
\* newline and the closing fence with a newline
BareOrJsonFenced ==
    \/ response_parts.open = <<>> /\ response_parts.close = <<>>
    \/ response_parts.open = OpenJsonNewline /\ response_parts.close = CloseNewline

\* C3: for every well-formed JSON object text J, the result for J between json
\* fences and the result for J without fences are the same, namely the mapping
\* J parses to; the fenced {"summary": "x"} gives the mapping with the one key
\* summary.
C3_FencedSameAsBare ==
    (Normalized /\ BodyIsObject /\ BareOrJsonFenced) =>
        /\ json_outcome = "parsed"
        /\ result = json_loads(response_parts.body).val
        /\ response_parts.body = BodySummary =>
                result = PyDict(MapPut(EmptyMap, KeySummary, PyStr(<<"x">>)))

C3_Witness ==
    /\ Normalized
    /\ response_parts.body = BodySummary
    /\ response_parts.open = OpenJsonNewline
    /\ response_parts.close = CloseNewline
    /\ result = PyDict(MapPut(EmptyMap, KeySummary, PyStr(<<"x">>)))

\* C4 as stated: for every response r on which json.loads fails, the result
\* is a failure record whose raw text equals r exactly.
C4_RawTextEqualsResponse ==
    (Normalized /\ json_outcome = "JSONDecodeError") =>
        result = JsonFailureRecord(model_outcome.text)

\* the response has no surrounding whitespace, no leading json fence and no
\* trailing fence
IsClean(r) == strip(r) = r /\ ~startswith(r, FenceJson) /\ ~endswith(r, Fence)

\* C4 amended: for every response r on which json.loads raises
\* JSONDecodeError, the result is a failure record (error indicator and raw
\* text, nothing else) whose raw text is the cleaned text that was handed to
\* json.loads: a part of r without surrounding whitespace, equal to r exactly
\* when r has no surrounding whitespace, no leading json fence and no trailing
\* fence.
C4_RawTextIsCleanedText ==
    (Normalized /\ json_outcome = "JSONDecodeError") =>
        /\ result.kind = "dict"
        /\ DOMAIN result.map = {KeyError, KeyRawResponse}
        /\ result.map[KeyRawResponse] = PyStr(response_text)
        /\ Contains(model_outcome.text, response_text)
        /\ strip(response_text) = response_text
        /\ IsClean(model_outcome.text) =>
                result.map[KeyRawResponse] = PyStr(model_outcome.text)

C4_Witness ==
    /\ Normalized
    /\ json_outcome = "JSONDecodeError"
    /\ model_outcome.text = BodyNotJson
    /\ result.map[KeyRawResponse] = PyStr(BodyNotJson)

\* C5: whenever json.loads of the cleaned response succeeds, the result is
\* the parsed mapping unchanged, and the caller and the Results display treat
\* it as a success.
C5_ParsedMappingIsSuccess ==
    (Normalized /\ json_outcome = "parsed") =>
        /\ result.kind = "dict"
        /\ result = json_loads(response_text).val
        /\ CallerView(result) = "success"
        /\ ResultsTab(result) = "sections"

(***************************************************************************)
(* Properties of the Text Extractor, checked under SpecExtract             *)
(***************************************************************************)
\* the lower-cased file name ends with one of the extensions
HasExtension(name, extensions) == \E e \in extensions : endswith(lower(name), e)

\* C6 as stated: for every upload of an unsupported format,
\* extract_text_from_file fails with UnsupportedFormat before the file's bytes
\* are read and before any decoding is attempted.
C6_UnsupportedBeforeRead ==
    extract_outcome.kind = "UnsupportedFormat" =>
        /\ file_content = Unread
        /\ decoder_calls = {}

\* C6 amended: for every upload of an unsupported format,
\* extract_text_from_file fails with UnsupportedFormat before any decoding is
\* attempted (no decoder is invoked, no temporary file is written), but after
\* the upload's bytes have been read: the read is the first statement and
\* precedes the check of the file name.
C6_UnsupportedBeforeDecoding ==
    /\ extract_outcome.kind = "UnsupportedFormat" =>
            /\ decoder_calls = {}
            /\ temp_files = 0
            /\ file_content = uploaded_file.content
    /\ file_content = Unread => extract_outcome = NoOutcome

C6_Witness ==
    /\ epc = "done"
    /\ uploaded_file.name = NameTxt
    /\ extract_outcome.kind = "UnsupportedFormat"
    /\ file_content = uploaded_file.content
    /\ decoder_calls = {}

\* C7 as stated: for every file whose extension is neither .pdf nor .docx
\* (.doc included), extraction fails with UnsupportedFormat and no decoder is
\* invoked.
C7_OnlyPdfAndDocx ==
    (epc = "done" /\ ~HasExtension(uploaded_file.name, {ExtPdf, ExtDocx})) =>
        /\ extract_outcome.kind = "UnsupportedFormat"
        /\ decoder_calls = {}

\* C7 amended: the extractor accepts exactly the extensions .pdf, .docx and
\* .doc, whatever their case: for every file whose name ends with none of
\* them, extraction fails with UnsupportedFormat and no decoder is invoked; a
\* .pdf file goes to the PDF decoder only, a .docx or .doc file to the DOCX
\* decoder only.
C7_PdfDocxAndDoc ==
    epc = "done" =>
        /\ ~HasExtension(uploaded_file.name, {ExtPdf, ExtDocx, ExtDoc}) =>
                /\ extract_outcome.kind = "UnsupportedFormat"
                /\ decoder_calls = {}
        /\ HasExtension(uploaded_file.name, {ExtPdf}) =>
                /\ extract_outcome.kind # "UnsupportedFormat"
                /\ decoder_calls = {"pdf"}
        /\ HasExtension(uploaded_file.name, {ExtDocx, ExtDoc}) =>
                /\ extract_outcome.kind # "UnsupportedFormat"
                /\ decoder_calls = {"docx"}
        /\ uploaded_file.name = NameDoc => decoder_calls = {"docx"}
        /\ uploaded_file.name = NameUpperPdf => decoder_calls = {"pdf"}
        /\ uploaded_file.name = NameTxt => extract_outcome.kind = "UnsupportedFormat"

C7_Witness ==
    /\ epc = "done"
    /\ uploaded_file.name = NameDocm
    /\ extract_outcome.kind = "UnsupportedFormat"
    /\ decoder_calls = {}

\* the PDF decoder has run on bytes that are a valid PDF
PdfDecoded ==
    epc = "done" /\ decoder_calls = {"pdf"} /\ file_content.format = "pdf"

\* the indices of the text at which a page marker starts
MarkerStarts(text) == {i \in 1..Len(text) : OccursAt(text, i, MarkerOpen)}

\* the index at which the k-th marker of the text starts
NthStart(text, k) ==
    CHOOSE i \in MarkerStarts(text) :
        Cardinality({j \in MarkerStarts(text) : j < i}) = k - 1

\* the text between the end of the k-th marker and the next marker (the end
\* of the text after the last marker)
AfterMarker(text, k, n) ==
    SubSeq(text, NthStart(text, k) + Len(MarkerLine(k)),
           IF k < n THEN NthStart(text, k + 1) - 1 ELSE Len(text))

\* C8: for every valid PDF with N pages that each contain text, the text
\* returned has exactly N page markers, the k-th of them numbered k, and each
\* page's text stands after its own marker and before the next page's marker
\* (the last page's text up to the trailing whitespace the final strip
\* removes).
C8_MarkerPerPageInOrder ==
    (PdfDecoded /\ \A k \in 1..Len(file_content.parts) : Len(file_content.parts[k]) > 0) =>
        LET pages == file_content.parts
            n == Len(pages)
            text == extract_outcome.text
        IN  /\ extract_outcome.kind = "text"
            /\ Cardinality(MarkerStarts(text)) = n
            /\ n > 0 => NthStart(text, 1) = 1
            /\ \A k \in 1..n :
                /\ OccursAt(text, NthStart(text, k), MarkerLine(k))
                /\ AfterMarker(text, k, n) =
                        IF k < n THEN <<"\n">> \o pages[k] \o <<"\n", "\n">>
                        ELSE rstrip(<<"\n">> \o pages[k])

C8_Witness ==
    /\ PdfDecoded
    /\ file_content.parts = << <<"a">>, <<"b", "\n", "c", " ">> >>
    /\ Cardinality(MarkerStarts(extract_outcome.text)) = 2

\* C9: a page with no extractable text adds neither text nor a marker and is
\* not an error; a valid PDF with zero pages or with no page holding text
\* gives the empty string.
C9_EmptyPagesAddNothing ==
    PdfDecoded =>
        LET pages == file_content.parts
            text == extract_outcome.text
            withText == {k \in 1..Len(pages) : Len(pages[k]) > 0}
        IN  /\ extract_outcome.kind = "text"
            /\ Cardinality(MarkerStarts(text)) = Cardinality(withText)
            /\ \A k \in 1..Len(pages) :
                    k \notin withText => ~Contains(text, MarkerLine(k))
            /\ withText = {} => text = <<>>

C9_Witness ==
    /\ PdfDecoded
    /\ file_content.parts = << <<>>, <<>> >>
    /\ extract_outcome = [kind |-> "text", text |-> <<>>]

\* the DOCX decoder has run on bytes that are a valid DOCX
DocxDecoded ==
    epc = "done" /\ decoder_calls = {"docx"} /\ file_content.format = "docx"

\* str.splitlines() on the newline character
RECURSIVE SplitLines(_)
SplitLines(s) ==
    IF Len(s) = 0 THEN <<>>
    ELSE IF \E i \in 1..Len(s) : s[i] = "\n"
    THEN LET i == CHOOSE i \in 1..Len(s) :
                    s[i] = "\n" /\ \A j \in 1..(i - 1) : s[j] # "\n"
         IN  <<SubSeq(s, 1, i - 1)>> \o SplitLines(SubSeq(s, i + 1, Len(s)))
    ELSE <<s>>

IsNonBlank(t) == Len(strip(t)) > 0
NonBlank(paragraphs) == SelectSeq(paragraphs, IsNonBlank)

\* the lines of the text are the non-blank paragraphs, in order, one per line
\* (the first without its leading, the last without its trailing whitespace)
OneLinePerParagraph(text, paragraphs) ==
    LET lines == SplitLines(text)
        kept == NonBlank(paragraphs)
    IN  /\ Len(lines) = Len(kept)
        /\ \A k \in 1..Len(lines) :
            /\ IsNonBlank(lines[k])
            /\ lines[k] =
                LET a == IF k = 1 THEN lstrip(kept[k]) ELSE kept[k]
                IN  IF k = Len(kept) THEN rstrip(a) ELSE a

\* C10 as stated: for every DOCX, the text returned has the non-blank
\* paragraphs in document order, each on its own line, no blank line, and as
\* many lines as non-blank paragraphs.
C10_OneLinePerNonBlankParagraph ==
    DocxDecoded =>
        /\ extract_outcome.kind = "text"
        /\ OneLinePerParagraph(extract_outcome.text, file_content.parts)

HasLineBreak(t) == \E i \in 1..Len(t) : t[i] = "\n"

\* C10 amended: for every DOCX none of whose paragraphs holds a line break,
\* the text returned has the non-blank paragraphs in document order, each on
\* its own line, no blank line, and as many lines as non-blank paragraphs; for
\* every DOCX extraction succeeds.
C10_OneLinePerParagraphWithoutBreaks ==
    DocxDecoded =>
        /\ extract_outcome.kind = "text"
        /\ (\A k \in 1..Len(file_content.parts) : ~HasLineBreak(file_content.parts[k])) =>
                OneLinePerParagraph(extract_outcome.text, file_content.parts)

C10_Witness ==
    /\ DocxDecoded
    /\ file_content.parts = << <<" ">>, <<" ", "b", " ">> >>
    /\ extract_outcome.text = <<"b">>

(***************************************************************************)
(* C12: the order of the parts of the prompt                               *)
(***************************************************************************)
PromptBuilt == ppc = "done"

\* the lines of the template that name the eight extraction categories
CategoryHeadings ==
    <<"1. **Personal Information:**",
      "2. **Professional Summary:** Brief career overview/objective",
      "3. **Work Experience:** List all jobs with:",
      "4. **Education:** All educational qualifications with:",
      "5. **Skills:** Categorize into:",
      "6. **Certifications:** All professional certifications with issuing organizations",
      "7. **Projects:** Personal/professional projects with:",
      "8. **Additional Information:**">>

\* the line that opens the target JSON schema, and the one on absent fields
SchemaHeader == "Return ONLY a valid JSON object with this exact structure:"
NullInstruction ==
    "If any field is not found, use null or empty array []. Ensure all text is properly extracted and formatted."

\* the line that announces the resume text
TextLabel == "Resume Text:"

\* the text t is the lines s .. s + Len(t) - 1 of the prompt p
TextAt(p, t, s) ==
    /\ s >= 1
    /\ s + Len(t) - 1 <= Len(p)
    /\ SubSeq(p, s, s + Len(t) - 1) = t

\* the first of the lines lo .. hi of p that is the given line, 0 if none is
FirstAt(p, line, lo, hi) ==
    IF \E i \in lo..hi : p[i] = line
    THEN CHOOSE i \in lo..hi : p[i] = line /\ \A j \in lo..(i - 1) : p[j] # line
    ELSE 0

RECURSIVE HeadingsFrom(_, _, _, _)
HeadingsFrom(p, k, lo, hi) ==
    IF k > Len(CategoryHeadings) THEN TRUE
    ELSE LET i == FirstAt(p, CategoryHeadings[k], lo, hi)
         IN  i # 0 /\ HeadingsFrom(p, k + 1, i + 1, hi)

\* the eight category headings are lines of p, in their order, all of them
\* among the lines lo .. hi
HeadingsWithin(p, lo, hi) == HeadingsFrom(p, 1, lo, hi)

\* the schema header and, after it, the instruction on absent fields are
\* lines of p among the lines lo .. hi
SchemaWithin(p, lo, hi) ==
    \E i, j \in lo..hi :
        /\ i < j
        /\ p[i] = SchemaHeader
        /\ p[j] = NullInstruction

\* C12 as stated: for every input text the prompt is, in this order, the
\* instruction block naming the eight categories, then the resume text
\* unchanged, then the JSON schema with the instruction on absent fields.
C12_CategoriesThenTextThenSchema ==
    PromptBuilt =>
        \E s \in 1..Len(prompt) :
            /\ TextAt(prompt, resume_text, s)
            /\ HeadingsWithin(prompt, 1, s - 1)
            /\ SchemaWithin(prompt, s + Len(resume_text), Len(prompt))

\* where the resume text starts in the prompt: right after the label line
TextStart == Len(PromptHead)

\* C12 amended: for every input text the prompt is, in this order, the opening
\* instruction ending in the line Resume Text:, then the resume text
\* unchanged, then the block naming the eight categories in their order,
\* then the JSON schema and last the instruction on absent fields; nothing
\* of the text is dropped and the prompt has no other lines than the
\* template's and the text's.
C12_TextThenCategoriesThenSchema ==
    PromptBuilt =>
        LET n == Len(resume_text)
            after == TextStart + n
        IN  /\ Len(prompt) = Len(PromptHead) + n + Len(PromptTail) - 2
            /\ SubSeq(prompt, 1, TextStart - 1) = SubSeq(PromptHead, 1, TextStart - 1)
            /\ prompt[TextStart - 1] = TextLabel
            /\ TextAt(prompt, resume_text, TextStart)
            /\ ~HeadingsWithin(prompt, 1, TextStart - 1)
            /\ HeadingsWithin(prompt, after, Len(prompt))
            /\ LET last == FirstAt(prompt, CategoryHeadings[Len(CategoryHeadings)],
                                   after + Len(CategoryHeadings) - 1, Len(prompt))
               IN  SchemaWithin(prompt, last + 1, Len(prompt))
            /\ prompt[Len(prompt) - 1] = NullInstruction

C12_Witness ==
    /\ PromptBuilt
    /\ resume_text = <<"Jane Doe", "", "8. **Additional Information:**">>
    /\ prompt[TextStart] = "Jane Doe"
    /\ prompt[TextStart + 3] = ""
    /\ prompt[TextStart + 4] = "Extract and structure the following information as a JSON object:"

(***************************************************************************)
(* C17: the temporary file of a decoder call                               *)
(***************************************************************************)
DecoderCalled == epc = "done" /\ decoder_calls # {}

\* C17: after every call of extract_text_from_pdf or extract_text_from_docx,
\* whether it returned text or failed with an extraction error, the
\* temporary file holding the uploaded bytes has been removed.
C17_TempFileRemoved ==
    DecoderCalled => temp_files = 0

(***************************************************************************)
(* C13 .. C16, C19, C20: the parse requests of a session of main.py        *)
(***************************************************************************)
RequestEnded == rpc = "idle" /\ request_outcome \in {"success", "failure", "exception"}

\* C13: in every parse request, by file or by text, generate_content is
\* called at most once, whatever it does and whatever the JSON parser makes
\* of the response.
C13_AtMostOneModelCall ==
    /\ model_calls <= 1
    /\ rpc \in {"model_wait", "answered"} => model_calls = 1

C13_Witness ==
    /\ RequestEnded
    /\ answer.raises
    /\ request_outcome = "failure"
    /\ parsed_data = ErrorRecord(MsgQuota)
    /\ model_calls = 1

\* C14: every model call ends: a parse request that waits for the model
\* eventually ends, also when the endpoint never answers.
C14_EveryModelCallEnds == (rpc = "model_wait") ~> (rpc = "idle")

RenderRaises == render_outcome \in {"TypeError", "AttributeError"}

\* C15: no failure of a request, a model response of an unexpected shape
\* included, makes a render of the page fail, in the run of the request or
\* in a later run.
C15_NoRenderFails == ~RenderRaises

ExtractionErrors == {"UnsupportedFormat", "ExtractionFailure"}

RequestFailed ==
    /\ rpc = "idle"
    /\ request_outcome \in ExtractionErrors \cup {"failure", "exception"}

\* C16: after a request that fails, the session holds no extracted text and
\* no parsed result of an earlier request: what it holds, this request
\* assigned.
C16_NothingHeldAfterFailure ==
    RequestFailed =>
        /\ extracted_text = PyNone \/ written.text
        /\ parsed_data = PyNone \/ written.data

\* C19: a run whose file extraction fails calls the model zero times and
\* leaves the session's extracted_text and parsed_data as they were before
\* the run.
C19_FailedExtractionKeepsSession ==
    [][(rpc = "idle" /\ rpc' = "idle" /\ request_outcome' \in ExtractionErrors) =>
            /\ extracted_text' = extracted_text
            /\ parsed_data' = parsed_data
            /\ model_calls' = 0]_vars

C19_Witness ==
    /\ rpc = "idle"
    /\ request_outcome = "ExtractionFailure"
    /\ model_calls = 0
    /\ extracted_text = PyStr(<<"b">>)
    /\ parsed_data = ErrorRecord(MsgQuota)

\* C20: between the runs, a parsed_data that is not None is the value
\* parse_resume_with_ai returned for the text that is the session's
\* extracted_text.
C20_StoredPairConsistent ==
    (rpc = "idle" /\ parsed_data # PyNone) =>
        /\ extracted_text = PyStr(pipeline.text)
        /\ parsed_data = pipeline.result

C20_Witness ==
    /\ rpc = "idle"
    /\ request_outcome = "ExtractionFailure"
    /\ extracted_text = PyStr(<<" ", "J">>)
    /\ pipeline.text = <<" ", "J">>
    /\ parsed_data = json_loads(BodySummary).val

(***************************************************************************)
(* C18: the health check of st.py gates every submission                   *)
(***************************************************************************)
HealthIs200 == ~health.raises /\ health.status = HttpOk

HealthKnown == bpc \in {"checked", "submit_wait"} \/ (bpc = "idle" /\ run_outcome # "none")

ParserStored == parser # PyNone

\* what holds of the session's parser in every state
ParserOfSession ==
    /\ parsers_created <= 1
    /\ ParserStored <=> parsers_created = 1
    /\ ParserStored => parser.api_key \in ApiKeys
    /\ model_calls > 0 => ParserStored /\ call_key = parser.api_key
    /\ api_key = NoKey => rpc = "idle" /\ model_calls = 0 /\ call_key = NoKey

\* C21: a session constructs at most one parser, only in a run with an API
\* key; a stored parser is kept by every later step, and every model call is
\* made with the stored parser's key, whatever key the run of the call has;
\* a run without a key issues no parse request.
C21_ParserCreatedOnce ==
    /\ []ParserOfSession
    /\ [][ParserStored =>
            /\ parser' = parser
            /\ parsers_created' = parsers_created]_vars
    /\ [][api_key' = NoKey => rpc' = "idle" /\ model_calls' = 0]_vars

C21_Witness ==
    /\ ParserStored
    /\ parser.api_key = "key1"
    /\ api_key = "key2"
    /\ rpc = "model_wait"
    /\ call_key = "key1"
    /\ parsers_created = 1

====
